---- MODULE Spec2Model ----
(***************************************************************************)
(* Verification model of the hiring dashboard (src/app.py): the Retry      *)
(* Executor, the Score Engine and the Mutation Engine working on three     *)
(* remote worksheets (active, denied, hired) through loaded tables.        *)
(***************************************************************************)
EXTENDS Integers, Sequences, FiniteSets, TLC

VARIABLES
    rx,       \* the Retry Executor's frame (retry_api_call)
    ratings,  \* Score Engine input: skill name -> optional number
    score,    \* Score Engine output, in hundredths
    sheet,    \* the remote worksheets: header row + data rows
    df,       \* the tables loaded by the last run of main()
    pc,       \* position of the session's script
    op,       \* the mutation in progress (arguments and locals)
    msgs,     \* what the operator is shown during the current run
    calls,    \* remote calls issued by the mutation in progress
    nops      \* number of mutations the operator has triggered

vars == <<rx, ratings, score, sheet, df, pc, op, msgs, calls, nops>>

(***************************************************************************)
(* Bounds of the model.                                                    *)
(***************************************************************************)
MaxRetriesBound == 4   \* max_retries is drawn from 0..MaxRetriesBound
MaxBaseDelay == 2      \* base_delay is drawn from 1..MaxBaseDelay
MaxRating == 2         \* Score Engine ratings are drawn from 0..MaxRating
MaxRows == 2           \* data rows of the active worksheet at start
MaxOps == 1            \* mutations triggered in one behaviour

(***************************************************************************)
(* Program constants.                                                      *)
(***************************************************************************)
DefaultMaxRetries == 3
DefaultBaseDelay == 1

SKILL_COLUMNS ==
    <<"Throwing Skill", "Strength Skill", "Data Skill",
      "Aptitude", "Professionalism", "Culture Fit", "Trust">>

Range(s) == {s[i] : i \in 1..Len(s)}

Skills == Range(SKILL_COLUMNS)

(***************************************************************************)
(* Exception texts, as sequences of characters, and str(e).lower().        *)
(***************************************************************************)
UpperChars ==
    <<"A","B","C","D","E","F","G","H","I","J","K","L","M",
      "N","O","P","Q","R","S","T","U","V","W","X","Y","Z">>
LowerChars ==
    <<"a","b","c","d","e","f","g","h","i","j","k","l","m",
      "n","o","p","q","r","s","t","u","v","w","x","y","z">>

LowerChar(c) ==
    IF \E i \in 1..26 : UpperChars[i] = c
    THEN LowerChars[CHOOSE i \in 1..26 : UpperChars[i] = c]
    ELSE c

Lower(s) == [i \in 1..Len(s) |-> LowerChar(s[i])]

Contains(s, pat) ==
    \E i \in 1..(Len(s) - Len(pat) + 1) : SubSeq(s, i, i + Len(pat) - 1) = pat

PatQuota == <<"q","u","o","t","a"," ","e","x","c","e","e","d","e","d">>
Pat429 == <<"4","2","9">>
PatRate == <<"r","a","t","e"," ","l","i","m","i","t">>

IsRateLimit(msg) ==
    LET error_str == Lower(msg)
    IN  Contains(error_str, PatQuota) \/ Contains(error_str, Pat429)
        \/ Contains(error_str, PatRate)

Msg429 == <<"E","r","r","o","r"," ","4","2","9">>
MsgRate == <<"R","a","t","e"," ","L","i","m","i","t">>
MsgQuota == <<"Q","u","o","t","a"," ","e","x","c","e","e","d","e","d">>
MsgPerm == <<"p","e","r","m","i","s","s","i","o","n"," ","d","e","n","i","e","d">>
MsgNotFound == <<"4","0","4"," ","n","o","t"," ","f","o","u","n","d">>
NoMsg == <<>>

TransientMsgs == {Msg429, MsgRate, MsgQuota}
FatalMsgs == {MsgPerm, MsgNotFound}

\* What one invocation of a remote call can do: return, or raise with a text.
Ok == [kind |-> "ok", msg |-> NoMsg]
Raise(m) == [kind |-> "raise", msg |-> m]
FuncOutcomes == {Ok} \cup {Raise(m) : m \in TransientMsgs \cup FatalMsgs}

(***************************************************************************)
(* Retry Executor: retry_api_call(func, max_retries, base_delay).          *)
(* One frame: the loop variable, the invocations of func made so far, the  *)
(* back-off sleeps taken (seconds), the warnings and errors shown, and how *)
(* the call ended: "returned" (func's value), "none" (None), "raised".     *)
(***************************************************************************)
Pow2(n) == IF n <= 0 THEN 1 ELSE 2 ^ n

\* random.uniform(0, 1): the two ends of the interval, in whole seconds.
Jitter == {0, 1}

RetryIdle ==
    [func |-> "none", max_retries |-> 0, base_delay |-> 0, attempt |-> 0,
     calls |-> 0, sleeps |-> <<>>, warnings |-> 0, errors |-> 0,
     status |-> "idle", exc |-> NoMsg, last |-> Ok, log |-> <<>>]

RetryBegin(func, max_retries, base_delay) ==
    [RetryIdle EXCEPT !.func = func, !.max_retries = max_retries,
                      !.base_delay = base_delay,
                      !.status = IF max_retries > 0 THEN "running" ELSE "none"]

OutcomeKind(o) ==
    IF o.kind = "ok" THEN "ok"
    ELSE IF IsRateLimit(o.msg) THEN "transient" ELSE "fatal"

\* Mutant: the executor gives up one attempt early.
AttemptsRemainGivesUpEarly(r) == r.attempt < r.max_retries - 2

AttemptsRemain(r) == r.attempt < r.max_retries - 1

\* Mutant: a failure without rate-limit signature is swallowed (returns None).
RetryRaiseSwallowed(r, o) == [r EXCEPT !.status = "none"]

RetryRaise(r, o) == [r EXCEPT !.status = "raised", !.exc = o.msg]

\* Mutant: the back-off grows linearly with the attempt.
RetryDelayLinear(r, j) == r.base_delay * (r.attempt + 1) + j

\* delay = base_delay * (2 ** attempt) + random.uniform(0, 1)
RetryDelay(r, j) == r.base_delay * Pow2(r.attempt) + j

\* Mutant: func() is called without "return", so the loop goes on.
RetryReturnMissing(r) ==
    [r EXCEPT !.attempt = @ + 1,
              !.status = IF r.attempt + 1 < r.max_retries
                         THEN "running" ELSE "none"]

\* return func(): the value of the invocation leaves the executor.
RetryReturn(r) == [r EXCEPT !.status = "returned"]

\* One pass of the loop body: func() is invoked and answers o; j is the jitter.
\* After "continue" the for loop goes on while attempt is in range(max_retries),
\* and the function returns None when the range is used up.
RetryStep(r, o, j) ==
    LET r1 == [r EXCEPT !.calls = @ + 1, !.last = o,
                        !.log = Append(@, OutcomeKind(o))]
    IN  IF o.kind = "ok"
        THEN RetryReturn(r1)
        ELSE IF IsRateLimit(o.msg)
             THEN IF AttemptsRemain(r1)
                  THEN [r1 EXCEPT
                          !.sleeps = Append(@, RetryDelay(r, j)),
                          !.warnings = @ + 1,
                          !.attempt = @ + 1,
                          !.status = IF r.attempt + 1 < r.max_retries
                                     THEN "running" ELSE "none"]
                  ELSE [r1 EXCEPT !.errors = @ + 1, !.status = "none"]
             ELSE RetryRaise(r1, o)

(***************************************************************************)
(* SpecRetry: the Retry Executor alone, run on an operation whose every    *)
(* invocation may return or raise any of the exception texts.              *)
(***************************************************************************)
NoRatings == <<>>
NoSheets == <<>>
NoOp == [kind |-> "none"]

InitRetry ==
    /\ rx \in {RetryBegin("probe", m, b) :
                 m \in 0..MaxRetriesBound, b \in 1..MaxBaseDelay}
    /\ ratings = NoRatings
    /\ score = 0
    /\ sheet = NoSheets
    /\ df = NoSheets
    /\ pc = "retry"
    /\ op = NoOp
    /\ msgs = <<>>
    /\ calls = <<>>
    /\ nops = 0

RetryProbe ==
    /\ pc = "retry"
    /\ rx.func = "probe"
    /\ rx.status = "running"
    /\ \E o \in FuncOutcomes, j \in Jitter : rx' = RetryStep(rx, o, j)
    /\ UNCHANGED <<ratings, score, sheet, df, pc, op, msgs, calls, nops>>

NextRetry == RetryProbe

SpecRetry == InitRetry /\ [][NextRetry]_vars

\* The operation has failed with a rate-limit signature on every invocation.
AlwaysTransient == \A i \in 1..Len(rx.log) : rx.log[i] = "transient"

\* C5: an operation that fails with a rate-limit signature on every
\* invocation is invoked exactly max_retries times, after which the executor
\* returns None (rate_limited) without raising; while it is still running it
\* has been invoked fewer than max_retries times.
C5_RetryCap ==
    (rx.func = "probe" /\ AlwaysTransient) =>
        /\ rx.status \in {"running", "none"}
        /\ rx.status = "none" => (rx.calls = rx.max_retries /\ ~ ENABLED RetryProbe)
        /\ rx.status = "running" => rx.calls < rx.max_retries

C5_Witness ==
    /\ rx.func = "probe" /\ AlwaysTransient
    /\ rx.status = "none"
    /\ rx.max_retries = DefaultMaxRetries
    /\ rx.calls = DefaultMaxRetries

\* C6: when an invocation fails without rate-limit signature, at whichever
\* attempt, the executor raises that same error, has slept only after the
\* earlier (transient) failures and not after this one, and the operation is
\* not invoked again; a first invocation failing this way means one call and
\* no sleep.
C6_FatalPropagates ==
    (rx.func = "probe" /\ rx.calls > 0 /\ rx.log[rx.calls] = "fatal") =>
        /\ rx.status = "raised"
        /\ rx.exc = rx.last.msg
        /\ Len(rx.sleeps) = rx.calls - 1
        /\ rx.warnings = rx.calls - 1
        /\ \A i \in 1..(rx.calls - 1) : rx.log[i] = "transient"
        /\ ~ ENABLED RetryProbe

C6_Witness ==
    /\ rx.func = "probe"
    /\ rx.calls = 2
    /\ rx.log = <<"transient", "fatal">>
    /\ rx.status = "raised"
    /\ rx.exc = MsgPerm

\* The invocations after which the executor retries: the transient
\* failures that are not the last attempt.
RetriedCalls ==
    {i \in 1..rx.calls : rx.log[i] = "transient" /\ i < rx.max_retries}

RECURSIVE SumOf(_)
SumOf(q) == IF q = <<>> THEN 0 ELSE Head(q) + SumOf(Tail(q))

\* C18: the executor sleeps only between attempts: after the k-th failed
\* transient attempt (0-based, k < max_retries - 1) it sleeps between
\* base_delay * 2^k and base_delay * 2^k + 1 and warns once, and another
\* invocation follows; after the final failed attempt it does not sleep and
\* shows one error; with transient failures throughout the sleeps add up to
\* at least base_delay * (2^(max_retries - 1) - 1), 3 * base_delay for the
\* default cap of 3.
C18_SleepsBetweenAttempts ==
    rx.func = "probe" =>
        /\ \A k \in 1..Len(rx.sleeps) :
              /\ rx.sleeps[k] >= rx.base_delay * Pow2(k - 1)
              /\ rx.sleeps[k] <= rx.base_delay * Pow2(k - 1) + 1
        /\ Len(rx.sleeps) = Cardinality(RetriedCalls)
        /\ rx.warnings = Len(rx.sleeps)
        /\ rx.status = "running" => Len(rx.sleeps) = rx.calls
        /\ (rx.status # "running" /\ rx.calls > 0) =>
              Len(rx.sleeps) = rx.calls - 1
        /\ rx.errors = IF rx.calls > 0 /\ rx.calls = rx.max_retries
                          /\ rx.log[rx.calls] = "transient"
                       THEN 1 ELSE 0
        /\ (AlwaysTransient /\ rx.status = "none" /\ rx.max_retries >= 1) =>
              /\ Len(rx.sleeps) = rx.max_retries - 1
              /\ SumOf(rx.sleeps)
                   >= rx.base_delay * (Pow2(rx.max_retries - 1) - 1)
              /\ rx.max_retries = DefaultMaxRetries =>
                    SumOf(rx.sleeps) >= 3 * rx.base_delay

C18_Witness ==
    /\ rx.func = "probe" /\ AlwaysTransient /\ rx.status = "none"
    /\ rx.max_retries = DefaultMaxRetries /\ rx.base_delay = DefaultBaseDelay
    /\ rx.sleeps = <<1, 2>>
    /\ rx.warnings = 2 /\ rx.errors = 1

(***************************************************************************)
(* SpecRetryFair: the executor under the scheduling of the code: the for   *)
(* loop is sequential and every sleep is finite, so an invocation that is  *)
(* due is made.                                                            *)
(***************************************************************************)
SpecRetryFair == InitRetry /\ [][NextRetry]_vars /\ WF_vars(RetryProbe)

\* The outcome of the executor agrees with what its invocations answered.
RetryOutcomeMatchesLog ==
    rx.func = "probe" =>
        /\ rx.calls <= rx.max_retries
        /\ rx.status \in {"running", "returned", "none", "raised"}
        /\ rx.status = "running" => rx.calls < rx.max_retries
        /\ \A i \in 1..rx.calls :
              /\ rx.log[i] = "ok" => (i = rx.calls /\ rx.status = "returned")
              /\ rx.log[i] = "fatal" => (i = rx.calls /\ rx.status = "raised")
        /\ rx.status = "returned" => (rx.calls > 0 /\ rx.log[rx.calls] = "ok")
        /\ rx.status = "raised" =>
              (rx.calls > 0 /\ rx.log[rx.calls] = "fatal"
                 /\ rx.exc = rx.last.msg)
        /\ rx.status = "none" =>
              (rx.calls = rx.max_retries
                 /\ \A i \in 1..rx.calls : rx.log[i] = "transient")

\* C22: the executor terminates after at most max_retries invocations in
\* exactly one of three outcomes: the value of the first invocation that
\* succeeds, which is also the last invocation; None (rate_limited), only
\* when every invocation failed with a rate limit, so never after a
\* success; or the error of the first invocation that failed otherwise.
C22_TerminatesInOneOutcome ==
    /\ [] RetryOutcomeMatchesLog
    /\ <> (rx.status # "running")

C22_Witness ==
    /\ rx.func = "probe" /\ rx.status = "returned"
    /\ rx.max_retries = DefaultMaxRetries
    /\ rx.log = <<"transient", "transient", "ok">>

(***************************************************************************)
(* Score Engine: calculate_applicant_score(row_data).                      *)
(* A rating is a number, None or NaN. Every number of the model is kept in *)
(* hundredths: Num(850) is 8.5.                                            *)
(***************************************************************************)
Num(n) == [k |-> "num", n |-> n, s |-> ""]
None == [k |-> "none", n |-> 0, s |-> ""]
NaN == [k |-> "nan", n |-> 0, s |-> ""]

\* Python truthiness: None, 0 and '' are falsy; NaN and the rest are truthy.
Truthy(v) ==
    CASE v.k = "num" -> v.n # 0
      [] v.k = "none" -> FALSE
      [] v.k = "text" -> v.s # ""
      [] OTHER -> TRUE

\* pd.isna
IsNa(v) == v.k \in {"none", "nan", "nat"}

\* "if score and not pd.isna(score)"
ScoreCollected(v) == Truthy(v) /\ ~ IsNa(v)

RECURSIVE SumSeq(_)
SumSeq(s) == IF s = <<>> THEN 0 ELSE Head(s) + SumSeq(Tail(s))

\* round(np.mean(scores), 2): sum is in hundredths, and so is the result.
\* For whole ratings and n in 1..7 the mean is never half-way between two
\* hundredths, so every rounding mode agrees.
Round2(sum, n) == (2 * sum + n) \div (2 * n)

\* row_data.get(skill, 0): a skill that is no key of the mapping reads 0.
GetRating(row_data, skill) ==
    IF skill \in DOMAIN row_data THEN row_data[skill] ELSE Num(0)

calculate_applicant_score(row_data) ==
    LET collected == SelectSeq(SKILL_COLUMNS,
                       LAMBDA skill : ScoreCollected(GetRating(row_data, skill)))
        scores == [i \in 1..Len(collected) |-> GetRating(row_data, collected[i]).n]
    IN  IF Len(scores) > 0 THEN Round2(SumSeq(scores), Len(scores)) ELSE 0

(***************************************************************************)
(* SpecScore: the Score Engine applied to every rating mapping of the      *)
(* bounded domain.                                                         *)
(***************************************************************************)
RatingValues == {None, NaN} \cup {Num(100 * n) : n \in 0..MaxRating}

InitScore ==
    /\ ratings \in [Skills -> RatingValues]
    /\ score = 0
    /\ pc = "score"
    /\ rx = RetryIdle
    /\ sheet = NoSheets
    /\ df = NoSheets
    /\ op = NoOp
    /\ msgs = <<>>
    /\ calls = <<>>
    /\ nops = 0

Calculate ==
    /\ pc = "score"
    /\ score' = calculate_applicant_score(ratings)
    /\ pc' = "scored"
    /\ UNCHANGED <<rx, ratings, sheet, df, op, msgs, calls, nops>>

NextScore == Calculate

SpecScore == InitScore /\ [][NextScore]_vars

\* The ratings that are present: non-null, whatever their magnitude.
PresentSkills(R) == SelectSeq(SKILL_COLUMNS, LAMBDA skill : ~ IsNa(R[skill]))

MeanOfPresent(R) ==
    LET present == PresentSkills(R)
        values == [i \in 1..Len(present) |-> R[present[i]].n]
    IN  IF Len(present) > 0 THEN Round2(SumSeq(values), Len(present)) ELSE 0

\* C10: score(R) is the mean of the present (non-null) values of R rounded
\* to 2 decimals, a rating of 0 counting as present, and 0.0 when none is.
C10_ScoreIsMeanOfPresent ==
    pc = "scored" => score = MeanOfPresent(ratings)

(***************************************************************************)
(* Cell values. A worksheet cell holds a text or a number; a loaded table  *)
(* also holds NaN, timestamps and NaT. The text str() makes of a number n  *)
(* is NumText(n) (its digits), of a timestamp of day d DateText(d)         *)
(* (d followed by " 00:00:00").                                            *)
(***************************************************************************)
Text(s) == [k |-> "text", n |-> 0, s |-> s]
NumText(n) == [k |-> "numtext", n |-> n, s |-> ""]
Date(d) == [k |-> "date", n |-> 0, s |-> d]
DateText(d) == [k |-> "datetext", n |-> 0, s |-> d]
EpochDate(n) == [k |-> "date", n |-> n, s |-> "epoch"]
EpochDateText(n) == [k |-> "datetext", n |-> n, s |-> "epoch"]
NaT == [k |-> "nat", n |-> 0, s |-> ""]
Blank == Text("")

DateStrings == {"2024-01-05", "1990-02-03", "1985-06-07"}

WS == {"active", "denied", "hired"}

DateColumns == <<"date of application", "date of birth">>
CanonicalHeader ==
    <<"name", "date of application", "date of birth">>
    \o SKILL_COLUMNS \o <<"Applicant Score">>
NumericColumns == Range(SKILL_COLUMNS) \cup {"Applicant Score"}

(***************************************************************************)
(* The remote store's primitives (gspread Worksheet), on a worksheet       *)
(* [header |-> column names, rows |-> data rows, each a sequence of cells].*)
(***************************************************************************)
row_values_1(w) == w.header

\* append_row(values): the row goes below the last row of the worksheet; on a
\* worksheet without any row it becomes row 1, the header row.
append_row(w, values) ==
    IF w.header = <<>> /\ w.rows = <<>>
    THEN [w EXCEPT !.header = [i \in 1..Len(values) |-> values[i].s]]
    ELSE [w EXCEPT !.rows = Append(@, values)]

\* Mutant: the header row is not counted, so the row above is deleted.
delete_rowsHeaderNotCounted(w, i) ==
    LET d == i - 2
    IN  IF d >= 1 /\ d <= Len(w.rows)
        THEN [w EXCEPT !.rows = SubSeq(@, 1, d - 1) \o SubSeq(@, d + 1, Len(@))]
        ELSE w

\* delete_rows(i): i is the 1-based spreadsheet row, the header being row 1.
delete_rows(w, i) ==
    LET d == i - 1
    IN  IF d >= 1 /\ d <= Len(w.rows)
        THEN [w EXCEPT !.rows = SubSeq(@, 1, d - 1) \o SubSeq(@, d + 1, Len(@))]
        ELSE w

PadRow(r, n) == [i \in 1..(IF Len(r) > n THEN Len(r) ELSE n) |->
                    IF i <= Len(r) THEN r[i] ELSE Blank]

\* A range in A1 notation is a column letter, kept as its character code,
\* followed by the 1-based spreadsheet row. The store reads the letters A..Z
\* in either case as the columns 1..26; any other character is no column.
ColumnOfLetter(code) ==
    IF code \in 65..90 THEN code - 64
    ELSE IF code \in 97..122 THEN code - 96
    ELSE 0

ValidRange(range) == ColumnOfLetter(range.letter) > 0 /\ range.row >= 1

\* One cell of a batched write: u = [range, value]. Writing below the last
\* data row makes the rows between exist.
WriteCell(w, u) ==
    LET d == u.range.row - 1
        col == ColumnOfLetter(u.range.letter)
        n == IF Len(w.rows) > d THEN Len(w.rows) ELSE d
        grown == [i \in 1..n |-> IF i <= Len(w.rows) THEN w.rows[i] ELSE <<>>]
    IN  IF d < 1 THEN w
        ELSE [w EXCEPT !.rows =
                [grown EXCEPT ![d] = [PadRow(@, col) EXCEPT ![col] = u.value]]]

RECURSIVE WriteCells(_, _)
WriteCells(w, updates) ==
    IF updates = <<>> THEN w
    ELSE WriteCells(WriteCell(w, Head(updates)), Tail(updates))

\* The store takes a batch as a whole, and only if it can read every range.
BatchAccepted(updates) ==
    \A i \in 1..Len(updates) : ValidRange(updates[i].range)

batch_update(w, updates) ==
    IF BatchAccepted(updates) THEN WriteCells(w, updates) ELSE w

\* gspread's numericise: a text of digits is read back as the number.
Numericise(v) == IF v.k = "numtext" THEN Num(v.n) ELSE v

\* get_all_records(): one dict per data row, keyed by the header row; a cell
\* the row does not reach reads '', and cells past the header row are not read.
get_all_records(w) ==
    [i \in 1..Len(w.rows) |->
        [c \in Range(w.header) |->
            LET j == CHOOSE j \in 1..Len(w.header) : w.header[j] = c
            IN  IF j <= Len(w.rows[i]) THEN Numericise(w.rows[i][j]) ELSE Blank]]

(***************************************************************************)
(* Tabular Loader: load_applicants_data(worksheet).                        *)
(* A table is [columns |-> column names, rows |-> one dict per row].       *)
(***************************************************************************)
EmptyFrame == [columns |-> <<>>, rows |-> <<>>]

\* pd.to_datetime(value, errors='coerce')
ToDatetime(v) ==
    IF v.k \in {"text", "datetext"} /\ v.s \in DateStrings THEN Date(v.s)
    ELSE IF v.k = "datetext" /\ v.s = "epoch" THEN EpochDate(v.n)
    ELSE IF v.k = "num" THEN EpochDate(v.n)
    ELSE IF v.k = "date" THEN v
    ELSE NaT

\* pd.to_numeric(value, errors='coerce')
ToNumeric(v) == IF v.k = "num" THEN v ELSE NaN

Coerce(c, v) ==
    IF c \in Range(DateColumns) THEN ToDatetime(v)
    ELSE IF c \in NumericColumns THEN ToNumeric(v)
    ELSE v

\* The table built from the fetched records (data is not None).
FrameOf(header, data) ==
    IF data = <<>>
    THEN [columns |-> CanonicalHeader, rows |-> <<>>]
    ELSE [columns |-> header,
          rows |-> [i \in 1..Len(data) |->
                      [c \in DOMAIN data[i] |-> Coerce(c, data[i][c])]]]

(***************************************************************************)
(* The worksheets a session starts on. The active worksheet is filled      *)
(* outside the program; each worksheet has its own header row.             *)
(***************************************************************************)
ShiftedHeader ==
    <<"Applicant Score", "name", "date of application", "date of birth">>
    \o SKILL_COLUMNS
PartialHeader == <<"name", "Trust", "Throwing Skill", "Applicant Score">>
NoSkillsHeader == <<"name", "date of application", "notes", "Applicant Score">>

\* The header rows of (active, denied, hired).
Layouts ==
    { <<CanonicalHeader, CanonicalHeader, CanonicalHeader>>,
      <<ShiftedHeader, CanonicalHeader, CanonicalHeader>>,
      <<CanonicalHeader, ShiftedHeader, PartialHeader>>,
      <<PartialHeader, CanonicalHeader, CanonicalHeader>>,
      <<NoSkillsHeader, NoSkillsHeader, CanonicalHeader>> }

\* Header rows of hand-made worksheets: one without any skill or score
\* column, and one whose columns go past column Z.
BareHeader == <<"name", "date of application", "notes">>
FillerColumns ==
    <<"x01", "x02", "x03", "x04", "x05", "x06", "x07", "x08", "x09", "x10",
      "x11", "x12", "x13", "x14", "x15", "x16", "x17", "x18", "x19", "x20",
      "x21", "x22", "x23", "x24">>
WideHeader ==
    <<"name", "Throwing Skill">> \o FillerColumns
    \o <<"Trust", "Applicant Score">>

AllColumns == Range(CanonicalHeader) \cup {"notes"} \cup Range(FillerColumns)

SeedAlice ==
    [c \in AllColumns |->
        CASE c = "name" -> Text("Alice")
          [] c = "date of application" -> Text("2024-01-05")
          [] c = "date of birth" -> Text("1990-02-03")
          [] c = "Throwing Skill" -> Num(900)
          [] c = "Strength Skill" -> Num(700)
          [] c = "notes" -> Text("referral")
          [] OTHER -> Blank]

SeedBob ==
    [c \in AllColumns |->
        CASE c = "name" -> Text("Bob")
          [] c = "date of application" -> Text("not-a-date")
          [] c = "date of birth" -> Text("1985-06-07")
          [] OTHER -> Blank]

SeedDan ==
    [c \in AllColumns |->
        CASE c = "name" -> Text("Dan")
          [] c = "date of application" -> Text("2024-01-05")
          [] c = "Trust" -> Num(1000)
          [] c = "Data Skill" -> Num(400)
          [] OTHER -> Blank]

Seeds == {SeedAlice, SeedBob}

\* The skill ratings a row under header h shows of a seed.
SeedRatings(h, seed) ==
    [skill \in Skills |->
        IF skill \in Range(h) /\ seed[skill].k = "num" THEN seed[skill] ELSE None]

\* The row of a seed under header h; its Applicant Score is the mean of the
\* ratings present in the row, and blank while the row shows no rating.
SeedRow(h, seed) ==
    [i \in 1..Len(h) |->
        IF h[i] = "Applicant Score"
        THEN IF PresentSkills(SeedRatings(h, seed)) = <<>> THEN Blank
             ELSE Num(MeanOfPresent(SeedRatings(h, seed)))
        ELSE seed[h[i]]]

SeqsUpTo(S, n) == UNION {[1..k -> S] : k \in 0..n}

IdleOp ==
    [kind |-> "none", src |-> "none", dst |-> "none", row_index |-> 0,
     row_data |-> <<>>, scores |-> <<>>, applicant_score |-> 0,
     headers |-> <<>>, row_values |-> <<>>, updates |-> <<>>,
     pre |-> <<>>, outcome |-> "none", failed |-> "none", exc |-> NoMsg]

Init ==
    /\ \E lay \in Layouts :
       \E ra \in SeqsUpTo(Seeds, MaxRows), rd \in SeqsUpTo({SeedDan}, 1),
          rh \in SeqsUpTo({SeedAlice}, 1) :
          sheet = [w \in WS |->
             CASE w = "active" ->
                    [header |-> lay[1],
                     rows |-> [i \in 1..Len(ra) |-> SeedRow(lay[1], ra[i])]]
               [] w = "denied" ->
                    [header |-> lay[2],
                     rows |-> [i \in 1..Len(rd) |-> SeedRow(lay[2], rd[i])]]
               [] w = "hired" ->
                    [header |-> lay[3],
                     rows |-> [i \in 1..Len(rh) |-> SeedRow(lay[3], rh[i])]]]
    /\ df = [w \in WS |-> EmptyFrame]
    /\ pc = "start"
    /\ op = IdleOp
    /\ rx = RetryIdle
    /\ msgs = {}
    /\ calls = <<>>
    /\ nops = 0
    /\ ratings = NoRatings
    /\ score = 0

(***************************************************************************)
(* What the operator is shown: st.success / st.warning / st.error.         *)
(***************************************************************************)
Shown(level, by, text, exc) ==
    [level |-> level, by |-> by, text |-> text, exc |-> exc]

\* The warnings and the error retry_api_call has shown during one call.
RetryShown(r) ==
    (IF r.warnings > 0
     THEN {Shown("warning", "retry_api_call", "Rate limit hit. Retrying", NoMsg)}
     ELSE {})
    \cup
    (IF r.errors > 0
     THEN {Shown("error", "retry_api_call", "rate limit exceeded", NoMsg)}
     ELSE {})

(***************************************************************************)
(* A whole call of retry_api_call inside one handler: the operation's      *)
(* answers are a script, one per invocation.                               *)
(***************************************************************************)
Repeat(x, n) == [i \in 1..n |-> x]

\* What a remote call answers during a session.
SessionOutcomes == {Ok, Raise(MsgRate), Raise(MsgPerm)}

\* Every way an operation can answer max_retries invocations, up to the
\* answers that are never asked for: k rate limits, then a value or another
\* error, or rate limits throughout.
Scripts(max_retries) ==
    {Repeat(Raise(MsgRate), k) \o <<x>> :
        k \in 0..(max_retries - 1), x \in {Ok, Raise(MsgPerm)}}
    \cup {Repeat(Raise(MsgRate), max_retries)}

RECURSIVE RetryRun(_, _, _)
RetryRun(r, script, j) ==
    IF r.status # "running" THEN r
    ELSE RetryRun(RetryStep(r, script[r.calls + 1], j), script, j)

\* A remote call as the log of the mutation in progress keeps it.
Call(api, w, wrapped, attempts, result) ==
    [api |-> api, ws |-> w, wrapped |-> wrapped, attempts |-> attempts,
     result |-> result]

\* The frames retry_api_call can end in, under the default arguments.
RetryRuns(func) ==
    {RetryRun(RetryBegin(func, DefaultMaxRetries, DefaultBaseDelay), script, j) :
        script \in Scripts(DefaultMaxRetries), j \in Jitter}

LoadRuns == RetryRuns("get_all_records")
BatchRuns == RetryRuns("batch_update")

\* The kind of each answer, computed once.
KindOf == [o \in FuncOutcomes |-> OutcomeKind(o)]

(***************************************************************************)
(* main(): every run of the script loads the three tables, renders them,   *)
(* and waits for the operator.                                             *)
(***************************************************************************)
\* The table load_applicants_data returns once retry_api_call is over with
\* frame r: the records, or an empty table after None or an exception.
LoadResult(w, r) ==
    IF r.status = "returned"
    THEN FrameOf(w.header, get_all_records(w))
    ELSE EmptyFrame

\* display_*: a table without Applicant Score column gets one, computed
\* from each row's ratings.
WithScoreColumn(t) ==
    IF t.rows = <<>> \/ "Applicant Score" \in Range(t.columns) THEN t
    ELSE [columns |-> Append(t.columns, "Applicant Score"),
          rows |-> [i \in 1..Len(t.rows) |->
                     [c \in DOMAIN t.rows[i] \cup {"Applicant Score"} |->
                        IF c = "Applicant Score"
                        THEN Num(calculate_applicant_score(t.rows[i]))
                        ELSE t.rows[i][c]]]]

\* How the three loads of one run can end; which frame ended a load shows
\* only in the notices of the load phase.
LoadEndings == {r.status : r \in LoadRuns}

\* One run of the script up to the rendered page. The notices of the load
\* phase stay on the page; the model does not track them past this point.
\* No further run is started once the session has used up its mutations.
Start ==
    /\ pc = "start"
    /\ nops < MaxOps
    /\ \E ending \in [WS -> LoadEndings] :
         df' = [w \in WS |->
                  WithScoreColumn(
                    LoadResult(sheet[w],
                      CHOOSE r \in LoadRuns : r.status = ending[w]))]
    /\ msgs' = {}
    /\ calls' = <<>>
    /\ op' = IdleOp
    /\ pc' = "idle"
    /\ UNCHANGED <<rx, ratings, score, sheet, nops>>

(***************************************************************************)
(* Presentation: the row_position handed to a mutation for the j-th record *)
(* of the loaded table t is the first offset whose name equals its name.   *)
(***************************************************************************)
OriginalIdx(t, j) ==
    (CHOOSE i \in 1..Len(t.rows) :
        /\ t.rows[i]["name"] = t.rows[j]["name"]
        /\ \A k \in 1..(i - 1) : t.rows[k]["name"] # t.rows[j]["name"]) - 1

\* A handler is passed the table of its own tab only; the other two tables
\* of the run are dead from here on.
HandlerFrames(w) == [v \in WS |-> IF v = w THEN df[v] ELSE EmptyFrame]

Clickable(w) ==
    /\ pc = "idle"
    /\ nops < MaxOps
    /\ df[w].rows # <<>>

(***************************************************************************)
(* Stage transitions: move_applicant_to_denied, move_applicant_to_hired,   *)
(* reinstate_applicant. The three bodies are the same up to the worksheets *)
(* and the texts shown.                                                    *)
(***************************************************************************)
\* str(value), after "if pd.isna(value): value = ''".
Str(v) ==
    CASE IsNa(v) -> Blank
      [] v.k = "num" -> NumText(v.n)
      [] v.k = "date" -> [v EXCEPT !.k = "datetext"]
      [] OTHER -> v

\* row_data.get(header, '')
GetOrBlank(row_data, header) ==
    IF header \in DOMAIN row_data THEN row_data[header] ELSE Blank

\* The worksheet whose header row lays out the appended row.
MoveHeaderSource(o) == o.src

RowValues(headers, row_data) ==
    [i \in 1..Len(headers) |-> Str(GetOrBlank(row_data, headers[i]))]

MoveFunction(kind) ==
    CASE kind = "deny" -> "move_applicant_to_denied"
      [] kind = "hire" -> "move_applicant_to_hired"
      [] OTHER -> "reinstate_applicant"

MoveErrorText(kind) ==
    IF kind = "reinstate" THEN "Error reinstating applicant"
    ELSE "Error moving applicant"

BeginMove(kind, src, dst, j) ==
    /\ Clickable(src)
    /\ op' = [IdleOp EXCEPT
                !.kind = kind, !.src = src, !.dst = dst,
                !.row_index = OriginalIdx(df[src], j),
                !.row_data = df[src].rows[OriginalIdx(df[src], j) + 1],
                !.pre = sheet, !.outcome = "running"]
    /\ df' = HandlerFrames(src)
    /\ pc' = "move_headers"
    /\ msgs' = {}
    /\ calls' = <<>>
    /\ nops' = nops + 1
    /\ UNCHANGED <<rx, ratings, score, sheet>>

ClickDeny == \E j \in 1..Len(df["active"].rows) : BeginMove("deny", "active", "denied", j)

ClickHire == \E j \in 1..Len(df["active"].rows) : BeginMove("hire", "active", "hired", j)

ClickReinstate ==
    \E w \in {"denied", "hired"} : \E j \in 1..Len(df[w].rows) :
        BeginMove("reinstate", w, "active", j)

\* Mutant: a failed step is passed over and the handler goes on.
MoveFailurePcIgnored(step) ==
    CASE step = "headers" -> "move_append"
      [] step = "append" -> "move_delete"
      [] OTHER -> "start"

\* Where the handler goes when a step raises: into "except Exception", which
\* shows the error; the caller then reruns the script.
MoveFailurePc(step) == "start"

\* What "except Exception as e" shows: the one handler of the function
\* serves every step, and the text names the function and str(e) only.
MoveErrorShown(kind, step, exc) ==
    Shown("error", MoveFunction(kind), MoveErrorText(kind), exc)

\* A step of the handler raised o.
MoveFailed(step, o) ==
    /\ msgs' = msgs \cup {MoveErrorShown(op.kind, step, o.msg)}
    /\ op' = [op EXCEPT !.outcome = "error", !.failed = step, !.exc = o.msg]
    /\ pc' = MoveFailurePc(step)

\* headers = source.row_values(1), and the row laid out along them.
MoveHeaders ==
    /\ pc = "move_headers"
    /\ \E o \in SessionOutcomes :
         /\ calls' = Append(calls, Call("row_values", MoveHeaderSource(op),
                                        FALSE, 1, KindOf[o]))
         /\ IF o.kind = "ok"
            THEN /\ op' = [op EXCEPT
                     !.headers = row_values_1(sheet[MoveHeaderSource(op)]),
                     !.row_values =
                        RowValues(row_values_1(sheet[MoveHeaderSource(op)]),
                                  op.row_data)]
                 /\ pc' = "move_append"
                 /\ UNCHANGED msgs
            ELSE MoveFailed("headers", o)
    /\ UNCHANGED <<rx, ratings, score, sheet, df, nops>>

\* destination.append_row(row_values)
MoveAppend ==
    /\ pc = "move_append"
    /\ \E o \in SessionOutcomes :
         /\ calls' = Append(calls, Call("append_row", op.dst, FALSE, 1,
                                        KindOf[o]))
         /\ IF o.kind = "ok"
            THEN /\ sheet' = [sheet EXCEPT
                                ![op.dst] = append_row(@, op.row_values)]
                 /\ pc' = "move_delete"
                 /\ UNCHANGED <<op, msgs>>
            ELSE /\ MoveFailed("append", o)
                 /\ UNCHANGED sheet
    /\ UNCHANGED <<rx, ratings, score, df, nops>>

\* Mutant: a failed delete takes the appended row back.
AfterDeleteFailureRollback(sh, o) ==
    [sh EXCEPT ![o.dst].rows = SubSeq(@, 1, Len(@) - 1)]

\* The worksheets after the delete raised: nothing is undone.
AfterDeleteFailure(sh, o) == sh

\* source.delete_rows(row_index + 2), then st.success.
MoveDelete ==
    /\ pc = "move_delete"
    /\ \E o \in SessionOutcomes :
         /\ calls' = Append(calls, Call("delete_rows", op.src, FALSE, 1,
                                        KindOf[o]))
         /\ IF o.kind = "ok"
            THEN /\ sheet' = [sheet EXCEPT
                                ![op.src] = delete_rows(@, op.row_index + 2)]
                 /\ msgs' = msgs \cup {Shown("success", MoveFunction(op.kind),
                                             "moved", NoMsg)}
                 /\ op' = [op EXCEPT !.outcome = "ok"]
                 /\ pc' = "start"
            ELSE /\ MoveFailed("delete", o)
                 /\ sheet' = AfterDeleteFailure(sheet, op)
    /\ UNCHANGED <<rx, ratings, score, df, nops>>

(***************************************************************************)
(* Update Scores: update_applicant_scores(worksheet, df, row_index,        *)
(* scores), called by the Save button of display_applicants_table.         *)
(***************************************************************************)
SliderMin == 1
SliderMax == 10

\* The ratings the sliders of one record hand over: a whole number from
\* min_value to max_value for each skill, in the order of SKILL_COLUMNS.
SliderInputs ==
    {[skill \in Skills |-> IF skill = "Throwing Skill" THEN a ELSE b] :
        a \in {SliderMin, SliderMax}, b \in {SliderMin, SliderMax}}

\* headers.index(c) + 1
ColIndex(headers, c) ==
    CHOOSE i \in 1..Len(headers) :
        headers[i] = c /\ \A k \in 1..(i - 1) : headers[k] # c

\* f'{chr(64 + col_index)}{sheet_row}'
A1Range(col_index, sheet_row) == [letter |-> 64 + col_index, row |-> sheet_row]

RECURSIVE SkillUpdates(_, _, _, _)
SkillUpdates(skills, scores, headers, sheet_row) ==
    IF skills = <<>> THEN <<>>
    ELSE (IF Head(skills) \in Range(headers)
          THEN <<[range |-> A1Range(ColIndex(headers, Head(skills)), sheet_row),
                  value |-> Num(100 * scores[Head(skills)])]>>
          ELSE <<>>)
         \o SkillUpdates(Tail(skills), scores, headers, sheet_row)

\* The batch: one cell per rated skill found in the header row, then the
\* Applicant Score cell if the header row has that column.
Updates(scores, applicant_score, headers, row_index) ==
    LET sheet_row == row_index + 2
    IN  SkillUpdates(SKILL_COLUMNS, scores, headers, sheet_row)
        \o (IF "Applicant Score" \in Range(headers)
            THEN <<[range |-> A1Range(ColIndex(headers, "Applicant Score"),
                                      sheet_row),
                    value |-> Num(applicant_score)]>>
            ELSE <<>>)

ClickSave ==
    \E j \in 1..Len(df["active"].rows), scores \in SliderInputs :
        /\ Clickable("active")
        /\ op' = [IdleOp EXCEPT
                    !.kind = "save", !.src = "active",
                        !.row_index = OriginalIdx(df["active"], j),
                    !.scores = scores,
                    !.applicant_score =
                        calculate_applicant_score(
                            [skill \in Skills |-> Num(100 * scores[skill])]),
                    !.pre = sheet, !.outcome = "running"]
        /\ df' = HandlerFrames("active")
        /\ pc' = "save_headers"
        /\ msgs' = {}
        /\ calls' = <<>>
        /\ nops' = nops + 1
        /\ UNCHANGED <<rx, ratings, score, sheet>>

SaveError(exc) ==
    Shown("error", "update_applicant_scores", "Error updating scores", exc)
SaveSuccess ==
    Shown("success", "update_applicant_scores", "Scores updated", NoMsg)
SaveRateLimited ==
    Shown("error", "update_applicant_scores",
          "Failed to update scores due to rate limits", NoMsg)

\* headers = worksheet.row_values(1) and the batch built from them; with an
\* empty batch no write is issued and success is shown.
SaveHeaders ==
    /\ pc = "save_headers"
    /\ \E o \in SessionOutcomes :
         /\ calls' = Append(calls, Call("row_values", op.src, FALSE, 1, KindOf[o]))
         /\ IF o.kind = "ok"
            THEN LET headers == row_values_1(sheet[op.src])
                     updates == Updates(op.scores, op.applicant_score, headers,
                                        op.row_index)
                 IN  IF updates # <<>>
                     THEN /\ op' = [op EXCEPT !.headers = headers,
                                              !.updates = updates]
                          /\ pc' = "save_batch"
                          /\ UNCHANGED msgs
                     ELSE /\ op' = [op EXCEPT !.headers = headers,
                                              !.outcome = "ok"]
                          /\ msgs' = msgs \cup {SaveSuccess}
                          /\ pc' = "save_ret"
            ELSE /\ op' = [op EXCEPT !.outcome = "error", !.failed = "headers",
                                     !.exc = o.msg]
                 /\ msgs' = msgs \cup {SaveError(o.msg)}
                 /\ pc' = "save_ret"
    /\ UNCHANGED <<rx, ratings, score, sheet, df, nops>>

\* Mutant: the "return" after the rate-limit error is missing, so the
\* success line is reached as well.
BatchShownNoReturn(r) ==
    RetryShown(r) \cup
    (CASE r.status = "returned" -> {SaveSuccess}
       [] r.status = "none" -> {SaveRateLimited, SaveSuccess}
       [] OTHER -> {SaveError(r.exc)})

\* What update_applicant_scores shows once retry_api_call(_batch_update) is
\* over with frame r.
BatchShown(r) ==
    RetryShown(r) \cup
    (CASE r.status = "returned" -> {SaveSuccess}
       [] r.status = "none" -> {SaveRateLimited}
       [] OTHER -> {SaveError(r.exc)})

BatchOutcome(r) ==
    CASE r.status = "returned" -> "ok"
      [] r.status = "none" -> "rate_limited"
      [] OTHER -> "error"

\* result = retry_api_call(_batch_update) and what follows it. A batch the
\* store cannot read is answered with an error or a rate limit, never with
\* a value.
SaveBatch ==
    /\ pc = "save_batch"
    /\ \E r \in BatchRuns :
         /\ BatchAccepted(op.updates) \/ r.status # "returned"
         /\ calls' = Append(calls, Call("batch_update", op.src, TRUE, r.calls,
                                        r.log[r.calls]))
         /\ sheet' = IF r.status = "returned"
                     THEN [sheet EXCEPT ![op.src] = batch_update(@, op.updates)]
                     ELSE sheet
         /\ msgs' = msgs \cup BatchShown(r)
         /\ op' = [op EXCEPT !.outcome = BatchOutcome(r),
                             !.failed = IF r.status = "returned" THEN "none"
                                        ELSE "batch",
                             !.exc = r.exc]
    /\ pc' = "save_ret"
    /\ UNCHANGED <<rx, ratings, score, df, nops>>

\* Back in display_applicants_table: st.success, a pause, st.rerun().
SaveReturn ==
    /\ pc = "save_ret"
    /\ msgs' = msgs \cup {Shown("success", "display_applicants_table",
                                "Scores saved to Google Sheets!", NoMsg)}
    /\ pc' = "start"
    /\ UNCHANGED <<rx, ratings, score, sheet, df, op, calls, nops>>

Next ==
    \/ Start
    \/ ClickSave \/ SaveHeaders \/ SaveBatch \/ SaveReturn
    \/ ClickDeny \/ ClickHire \/ ClickReinstate
    \/ MoveHeaders \/ MoveAppend \/ MoveDelete

Spec == Init /\ [][Next]_vars

(***************************************************************************)
(* Properties of the Mutation Engine, checked under Spec.                  *)
(***************************************************************************)
IsMove == op.kind \in {"deny", "hire", "reinstate"}

Last(q) == q[Len(q)]

RemoveAt(q, i) == SubSeq(q, 1, i - 1) \o SubSeq(q, i + 1, Len(q))

\* The name a worksheet with header row h shows for its data row r.
NameOfRow(h, r) ==
    IF "name" \in Range(h) /\ ColIndex(h, "name") <= Len(r)
    THEN Numericise(r[ColIndex(h, "name")])
    ELSE Blank

Issued(api) == \E i \in 1..Len(calls) : calls[i].api = api

Succeeded(api) ==
    \E i \in 1..Len(calls) : calls[i].api = api /\ calls[i].result = "ok"

\* C1: after a transition whose two remote calls succeeded, the source
\* worksheet is the one before without the row at row_position, and the
\* destination is the one before plus one row at the end, whose name (under
\* the destination's header row) is the moved record's name.
C1_TransitionMovesRecord ==
    (IsMove /\ op.outcome = "ok") =>
        LET p == op.row_index + 1
            src0 == op.pre[op.src]
            dst0 == op.pre[op.dst]
        IN  /\ sheet[op.src].header = src0.header
            /\ sheet[op.src].rows = RemoveAt(src0.rows, p)
            /\ Len(sheet[op.src].rows) = Len(src0.rows) - 1
            /\ Len(sheet[op.dst].rows) = Len(dst0.rows) + 1
            /\ SubSeq(sheet[op.dst].rows, 1, Len(dst0.rows)) = dst0.rows
            /\ NameOfRow(sheet[op.dst].header, Last(sheet[op.dst].rows))
                 = NameOfRow(src0.header, src0.rows[p])

\* C2: when the append of a transition fails, both worksheets are as before
\* the transition, no delete was issued, and the handler has shown an error
\* and returned to its caller, which reruns the script.
C2_AppendFailureLeavesSheets ==
    (IsMove /\ op.failed = "append") =>
        /\ sheet = op.pre
        /\ ~ Issued("delete_rows")
        /\ op.outcome = "error"
        /\ pc = "start"
        /\ \E m \in msgs : m.level = "error" /\ m.by = MoveFunction(op.kind)
                           /\ m.exc = op.exc

C2_Witness ==
    /\ op.kind = "reinstate" /\ op.failed = "append"
    /\ op.exc = MsgRate
    /\ Succeeded("row_values")

\* C3: a transition issues its delete only after its append has succeeded,
\* and a delete that fails undoes nothing: the source worksheet still holds
\* the record and the destination holds the appended row.
C3_DeleteAfterAppendNoRollback ==
    IsMove =>
        /\ \A i \in 1..Len(calls) :
              calls[i].api = "delete_rows" =>
                 \E k \in 1..(i - 1) :
                    calls[k].api = "append_row" /\ calls[k].result = "ok"
        /\ op.failed = "delete" =>
              /\ sheet[op.src] = op.pre[op.src]
              /\ sheet[op.dst].header = op.pre[op.dst].header
              /\ sheet[op.dst].rows = Append(op.pre[op.dst].rows, op.row_values)
              /\ \A w \in WS \ {op.src, op.dst} : sheet[w] = op.pre[w]

C3_Witness ==
    /\ IsMove /\ op.failed = "delete"
    /\ Succeeded("append_row")
    /\ Len(sheet[op.dst].rows) = Len(op.pre[op.dst].rows) + 1
    /\ Len(sheet[op.src].rows) = Len(op.pre[op.src].rows)

\* C4: the row a transition appends is laid out along the destination
\* worksheet's header row: under each destination header stands the text of
\* the moved record's value of that name, '' when the record has no such
\* column or the value is null/NaN.
C4_RowMappedByDestinationHeader ==
    (IsMove /\ Succeeded("append_row")) =>
        Last(sheet[op.dst].rows)
            = RowValues(op.pre[op.dst].header, op.row_data)

\* C7: every remote call a mutation issues goes through the Retry Executor,
\* so a call that gave up on a rate limit was invoked max_retries times.
C7_EveryRemoteCallWrapped ==
    (op.kind \in {"save", "deny", "hire", "reinstate"}) =>
        \A i \in 1..Len(calls) :
            /\ calls[i].wrapped
            /\ calls[i].result = "transient" =>
                  calls[i].attempts = DefaultMaxRetries

BatchExhausted ==
    /\ op.kind = "save"
    /\ Len(calls) > 0
    /\ Last(calls).api = "batch_update"
    /\ Last(calls).result = "transient"

\* C8: when the batched write of Update Scores has used up its retries, the
\* operation ends rate_limited, the worksheets are as before the operation,
\* and update_applicant_scores itself shows the rate-limit error and no
\* success.
C8_BatchExhaustedLeavesSheet ==
    BatchExhausted =>
        /\ op.outcome = "rate_limited"
        /\ Last(calls).attempts = DefaultMaxRetries
        /\ sheet = op.pre
        /\ SaveRateLimited \in msgs
        /\ ~ \E m \in msgs : m.level = "success"
                             /\ m.by = "update_applicant_scores"

C8_Witness ==
    /\ BatchExhausted
    /\ pc = "save_ret"
    /\ op.outcome = "rate_limited"
    /\ op.updates # <<>>

\* C9: a save that ended rate_limited or in an error never shows the
\* operator a success message, and shows an error.
C9_NoSuccessAfterFailedSave ==
    (op.kind = "save" /\ op.outcome \in {"rate_limited", "error"}) =>
        /\ \E m \in msgs : m.level = "error"
        /\ ~ \E m \in msgs : m.level = "success"

(***************************************************************************)
(* The score invariant of the stored rows.                                 *)
(***************************************************************************)
\* The cell a data row r shows under column c of header row h, as a load
\* reads it.
CellOf(h, r, c) ==
    IF c \in Range(h) /\ ColIndex(h, c) <= Len(r)
    THEN Numericise(r[ColIndex(h, c)])
    ELSE Blank

\* The skill ratings of a stored row: a number where the row has one.
RowRatings(h, r) ==
    [skill \in Skills |->
        IF CellOf(h, r, skill).k = "num" THEN CellOf(h, r, skill) ELSE None]

RowScoreHolds(h, r) ==
    CellOf(h, r, "Applicant Score").k = "num" =>
        CellOf(h, r, "Applicant Score").n = MeanOfPresent(RowRatings(h, r))

ScoreInvariant(sh) ==
    \A w \in WS : \A i \in 1..Len(sh[w].rows) :
        RowScoreHolds(sh[w].header, sh[w].rows[i])

\* C11: starting from worksheets whose rows satisfy it, after a successful
\* Update Scores or stage transition every row of every worksheet that has
\* an Applicant Score has it equal to the mean of that row's present skill
\* ratings rounded to 2 decimals, also when the header row lacks some of
\* the rated skill columns.
C11_StoredScoreIsMeanOfRow ==
    (op.outcome = "ok" /\ pc \in {"save_ret", "start"} /\ ScoreInvariant(op.pre))
        => ScoreInvariant(sheet)

(***************************************************************************)
(* Worksheet Resolver: get_or_create_worksheet(spreadsheet, name).         *)
(* Under SpecResolve the variable sheet is the spreadsheet: a function     *)
(* whose domain is the set of worksheets that exist; calls is the log of   *)
(* the remote calls of every resolve so far.                               *)
(***************************************************************************)
MaxResolves == 2       \* calls of get_or_create_worksheet in one behaviour

\* spreadsheet.add_worksheet(title, rows=1000, cols=20): a worksheet without
\* any row.
add_worksheet(book, name) == book @@ (name :> [header |-> <<>>, rows |-> <<>>])

\* headers = ["name", ...] + SKILL_COLUMNS + ["Applicant Score"]
ResolveHeaders == [i \in 1..Len(CanonicalHeader) |-> Text(CanonicalHeader[i])]

\* A remote call of the n-th resolve.
ResolveCall(n, api, name, result) ==
    [call |-> n, api |-> api, ws |-> name, result |-> result]

ExistingSheets ==
    {[header |-> CanonicalHeader, rows |-> <<>>],
     [header |-> CanonicalHeader,
      rows |-> <<SeedRow(CanonicalHeader, SeedAlice)>>],
     [header |-> ShiftedHeader,
      rows |-> <<SeedRow(ShiftedHeader, SeedBob)>>]}

InitResolve ==
    /\ \E present \in SUBSET WS : sheet \in [present -> ExistingSheets]
    /\ df = NoSheets
    /\ pc = "resolve_idle"
    /\ op = IdleOp
    /\ rx = RetryIdle
    /\ msgs = {}
    /\ calls = <<>>
    /\ nops = 0
    /\ ratings = NoRatings
    /\ score = 0

\* main() resolves a worksheet at the start of a run of the script.
ResolveBegin ==
    /\ pc = "resolve_idle"
    /\ nops < MaxResolves
    /\ \E name \in WS :
         op' = [IdleOp EXCEPT !.kind = "resolve", !.src = name,
                              !.pre = sheet, !.outcome = "running"]
    /\ nops' = nops + 1
    /\ pc' = "resolve_lookup"
    /\ UNCHANGED <<rx, ratings, score, sheet, df, msgs, calls>>

\* An exception that is no WorksheetNotFound leaves the function.
ResolveRaised(step, o) ==
    /\ op' = [op EXCEPT !.outcome = "raised", !.failed = step, !.exc = o.msg]
    /\ pc' = "resolve_idle"

\* Mutant: the worksheet is created whether or not the lookup found it.
AfterLookupAlwaysCreate(found) == "resolve_create"

\* Where the function goes after spreadsheet.worksheet(name) answered:
\* "return worksheet", or the WorksheetNotFound handler.
AfterLookup(found) == IF found THEN "resolve_idle" ELSE "resolve_create"

\* worksheet = spreadsheet.worksheet(worksheet_name)
ResolveLookup ==
    /\ pc = "resolve_lookup"
    /\ \E o \in SessionOutcomes :
         IF o.kind = "ok"
         THEN /\ calls' = Append(calls,
                    ResolveCall(nops, "worksheet", op.src,
                        IF op.src \in DOMAIN sheet THEN "ok" ELSE "not_found"))
              /\ pc' = AfterLookup(op.src \in DOMAIN sheet)
              /\ op' = IF AfterLookup(op.src \in DOMAIN sheet) = "resolve_idle"
                       THEN [op EXCEPT !.outcome = "returned"]
                       ELSE op
         ELSE /\ calls' = Append(calls,
                    ResolveCall(nops, "worksheet", op.src, KindOf[o]))
              /\ ResolveRaised("lookup", o)
    /\ UNCHANGED <<rx, ratings, score, sheet, df, msgs, nops>>

\* worksheet = spreadsheet.add_worksheet(title=worksheet_name, ...); the
\* store refuses a title that exists.
ResolveCreate ==
    /\ pc = "resolve_create"
    /\ \E o \in SessionOutcomes :
         IF o.kind = "ok" /\ op.src \notin DOMAIN sheet
         THEN /\ calls' = Append(calls,
                    ResolveCall(nops, "add_worksheet", op.src, "ok"))
              /\ sheet' = add_worksheet(sheet, op.src)
              /\ pc' = "resolve_header"
              /\ UNCHANGED op
         ELSE /\ calls' = Append(calls,
                    ResolveCall(nops, "add_worksheet", op.src,
                        IF o.kind = "ok" THEN "fatal" ELSE KindOf[o]))
              /\ ResolveRaised("create", o)
              /\ UNCHANGED sheet
    /\ UNCHANGED <<rx, ratings, score, df, msgs, nops>>

\* worksheet.append_row(headers); return worksheet
ResolveHeader ==
    /\ pc = "resolve_header"
    /\ \E o \in SessionOutcomes :
         /\ calls' = Append(calls,
                ResolveCall(nops, "append_row", op.src, KindOf[o]))
         /\ IF o.kind = "ok"
            THEN /\ sheet' = [sheet EXCEPT
                                ![op.src] = append_row(@, ResolveHeaders)]
                 /\ op' = [op EXCEPT !.outcome = "returned"]
                 /\ pc' = "resolve_idle"
            ELSE /\ ResolveRaised("header", o)
                 /\ UNCHANGED sheet
    /\ UNCHANGED <<rx, ratings, score, df, msgs, nops>>

NextResolve ==
    ResolveBegin \/ ResolveLookup \/ ResolveCreate \/ ResolveHeader

SpecResolve == InitResolve /\ [][NextResolve]_vars

\* The calls of the log that are api on worksheet name and ended in result.
CallsLike(api, name, result) ==
    {i \in 1..Len(calls) :
        calls[i].api = api /\ calls[i].ws = name /\ calls[i].result = result}

\* No resolve of name has raised so far, and none is under way.
ResolvedCleanly(name) ==
    /\ \A i \in 1..Len(calls) :
          calls[i].ws = name => calls[i].result \in {"ok", "not_found"}
    /\ pc = "resolve_idle" \/ op.src # name

\* C12: a resolve of a name that exists issues no create and no header
\* write, leaves the spreadsheet (its worksheets and their rows) as it was,
\* and returns once the lookup has answered; and over a sequence of resolves
\* a worksheet is created at most once and gets its header row at most once,
\* exactly once each when the name was absent and the resolves returned,
\* after which the worksheet holds the canonical header row and nothing else.
C12_ResolveIdempotent ==
    op.kind = "resolve" =>
        /\ op.src \in DOMAIN op.pre =>
              /\ sheet = op.pre
              /\ \A i \in 1..Len(calls) :
                    calls[i].call = nops => calls[i].api = "worksheet"
              /\ (Len(calls) > 0 /\ Last(calls).call = nops
                    /\ Last(calls).result = "ok") =>
                       (op.outcome = "returned" /\ pc = "resolve_idle")
        /\ \A name \in WS :
              /\ Cardinality(CallsLike("add_worksheet", name, "ok")) <= 1
              /\ Cardinality(CallsLike("append_row", name, "ok")) <= 1
              /\ (ResolvedCleanly(name)
                    /\ CallsLike("worksheet", name, "not_found") # {}) =>
                    /\ Cardinality(CallsLike("add_worksheet", name, "ok")) = 1
                    /\ Cardinality(CallsLike("append_row", name, "ok")) = 1
                    /\ Cardinality(CallsLike("worksheet", name, "not_found")) = 1
                    /\ name \in DOMAIN sheet
                    /\ sheet[name] = [header |-> CanonicalHeader, rows |-> <<>>]

C12_Witness ==
    /\ op.kind = "resolve" /\ op.src = "denied" /\ op.outcome = "returned"
    /\ pc = "resolve_idle" /\ nops = 2
    /\ "denied" \in DOMAIN op.pre
    /\ [i \in 1..Len(calls) |-> <<calls[i].api, calls[i].ws, calls[i].result>>]
         = << <<"worksheet", "denied", "not_found">>,
              <<"add_worksheet", "denied", "ok">>,
              <<"append_row", "denied", "ok">>,
              <<"worksheet", "denied", "ok">> >>

(***************************************************************************)
(* SpecLoad: the load phase of main(), load_applicants_data on the three   *)
(* worksheets in turn, with retry_api_call run invocation by invocation.   *)
(* nops counts the loads that are over.                                    *)
(***************************************************************************)
LoadOrder == <<"active", "denied", "hired">>

\* The worksheets a run of main() can find.
StartSheets ==
    {[w \in WS |->
        CASE w = "active" ->
               [header |-> lay[1],
                rows |-> [i \in 1..Len(ra) |-> SeedRow(lay[1], ra[i])]]
          [] w = "denied" ->
               [header |-> lay[2],
                rows |-> [i \in 1..Len(rd) |-> SeedRow(lay[2], rd[i])]]
          [] w = "hired" ->
               [header |-> lay[3],
                rows |-> [i \in 1..Len(rh) |-> SeedRow(lay[3], rh[i])]]] :
        lay \in Layouts, ra \in SeqsUpTo(Seeds, MaxRows),
        rd \in SeqsUpTo({SeedDan}, 1), rh \in SeqsUpTo({SeedAlice}, 1)}

InitLoad ==
    /\ sheet \in StartSheets
    /\ df = [w \in WS |-> EmptyFrame]
    /\ pc = "load_idle"
    /\ op = IdleOp
    /\ rx = RetryIdle
    /\ msgs = {}
    /\ calls = <<>>
    /\ nops = 0
    /\ ratings = NoRatings
    /\ score = 0

\* data = retry_api_call(_get_data), entered
LoadBegin ==
    /\ pc = "load_idle"
    /\ nops < Len(LoadOrder)
    /\ op' = [IdleOp EXCEPT !.kind = "load", !.src = LoadOrder[nops + 1],
                            !.pre = sheet, !.outcome = "running"]
    /\ rx' = RetryBegin("get_all_records", DefaultMaxRetries, DefaultBaseDelay)
    /\ pc' = "load_fetch"
    /\ UNCHANGED <<ratings, score, sheet, df, msgs, calls, nops>>

\* One invocation of _get_data: worksheet.get_all_records() reads.
LoadAttempt ==
    /\ pc = "load_fetch"
    /\ rx.status = "running"
    /\ \E o \in SessionOutcomes, j \in Jitter : rx' = RetryStep(rx, o, j)
    /\ UNCHANGED <<ratings, score, sheet, df, pc, op, msgs, calls, nops>>

\* Mutant: the exception retry_api_call raises is not caught.
LoadOutcomeUncaught(r) == IF r.status = "raised" THEN "raised" ELSE "returned"

\* How load_applicants_data ends once retry_api_call is over with frame r:
\* "except Exception" turns a raise into a returned empty table.
LoadOutcome(r) == "returned"

LoadError(exc) ==
    Shown("error", "load_applicants_data", "Error loading data", exc)

\* The rest of load_applicants_data, up to its return.
LoadReturn ==
    /\ pc = "load_fetch"
    /\ rx.status # "running"
    /\ op' = [op EXCEPT !.outcome = LoadOutcome(rx), !.exc = rx.exc]
    /\ msgs' = msgs \cup RetryShown(rx)
                    \cup (IF rx.status = "raised" THEN {LoadError(rx.exc)}
                          ELSE {})
    /\ IF LoadOutcome(rx) = "returned"
       THEN /\ df' = [df EXCEPT ![op.src] = LoadResult(sheet[op.src], rx)]
            /\ pc' = "load_idle"
       ELSE /\ pc' = "crashed"
            /\ UNCHANGED df
    /\ nops' = nops + 1
    /\ UNCHANGED <<rx, ratings, score, sheet, calls>>

NextLoad == LoadBegin \/ LoadAttempt \/ LoadReturn

SpecLoad == InitLoad /\ [][NextLoad]_vars

\* C13: whether the fetch succeeds, uses up its retries on rate limits or
\* fails with another error, load_applicants_data returns a table, the empty
\* table in both failure cases and the coerced records otherwise, and the
\* worksheets are at every moment of the load as they were before it.
C13_LoaderReturnsAndLeavesSheet ==
    op.kind = "load" =>
        /\ sheet = op.pre
        /\ pc # "crashed"
        /\ op.outcome # "running" =>
              /\ op.outcome = "returned"
              /\ rx.status \in {"none", "raised"} => df[op.src] = EmptyFrame
              /\ rx.status = "returned" =>
                    df[op.src] = FrameOf(sheet[op.src].header,
                                         get_all_records(sheet[op.src]))

C13_Witness ==
    /\ op.kind = "load" /\ op.src = "active" /\ op.outcome = "returned"
    /\ rx.status = "raised" /\ rx.calls = 2
    /\ sheet["active"].rows # <<>>
    /\ df["active"] = EmptyFrame
    /\ LoadError(MsgPerm) \in msgs

(***************************************************************************)
(* SpecRows: the session of Spec on longer tables, some of whose records   *)
(* share a name (the store does not enforce unique names).                 *)
(***************************************************************************)
MaxTableRows == 3      \* data rows of the active worksheet under SpecRows

InitRows ==
    /\ \E ra \in SeqsUpTo(Seeds, MaxTableRows) :
          sheet = [w \in WS |->
             CASE w = "active" ->
                    [header |-> CanonicalHeader,
                     rows |-> [i \in 1..Len(ra) |->
                                 SeedRow(CanonicalHeader, ra[i])]]
               [] w = "denied" ->
                    [header |-> CanonicalHeader,
                     rows |-> <<SeedRow(CanonicalHeader, SeedDan)>>]
               [] w = "hired" ->
                    [header |-> CanonicalHeader, rows |-> <<>>]]
    /\ df = [w \in WS |-> EmptyFrame]
    /\ pc = "start"
    /\ op = IdleOp
    /\ rx = RetryIdle
    /\ msgs = {}
    /\ calls = <<>>
    /\ nops = 0
    /\ ratings = NoRatings
    /\ score = 0

SpecRows == InitRows /\ [][Next]_vars

\* What a load of worksheet w that fetches its records returns now.
FreshLoad(w) ==
    WithScoreColumn(FrameOf(sheet[w].header, get_all_records(sheet[w])))

\* A transition has removed a row of the worksheet whose table df[op.src]
\* was loaded before it.
RowRemoved ==
    /\ IsMove /\ op.outcome = "ok" /\ pc = "start"
    /\ Len(df[op.src].rows) = Len(op.pre[op.src].rows)

\* C14 as stated: after a transition removed the row at position p, at
\* every position q > p that was not the last one a fresh load shows a
\* record whose name differs from the name that stood at q before.
C14_LaterPositionsShowOtherName ==
    RowRemoved =>
        \A q \in (op.row_index + 1)..(Len(df[op.src].rows) - 2) :
            FreshLoad(op.src).rows[q + 1]["name"] # df[op.src].rows[q + 1]["name"]

\* C14 as amended: at every such position q a fresh load shows the record
\* that stood at q + 1 before, so a captured position addresses another
\* record; the name at q differs from the one before whenever the records
\* that stood at q and q + 1 had different names.
C14_LaterPositionsShowNextRecord ==
    RowRemoved =>
        /\ Len(FreshLoad(op.src).rows) = Len(df[op.src].rows) - 1
        /\ \A q \in (op.row_index + 1)..(Len(df[op.src].rows) - 2) :
              /\ FreshLoad(op.src).rows[q + 1] = df[op.src].rows[q + 2]
              /\ df[op.src].rows[q + 1]["name"] # df[op.src].rows[q + 2]["name"]
                   => FreshLoad(op.src).rows[q + 1]["name"]
                        # df[op.src].rows[q + 1]["name"]

C14_Witness ==
    /\ RowRemoved
    /\ op.kind = "deny" /\ op.row_index = 0
    /\ Len(df["active"].rows) = 3
    /\ df["active"].rows[2]["name"] = Text("Bob")
    /\ df["active"].rows[3]["name"] = Text("Alice")
    /\ FreshLoad("active").rows[2]["name"] = Text("Alice")

(***************************************************************************)
(* SpecBatch: Update Scores on an active worksheet under each header row   *)
(* of BatchHeaders.                                                        *)
(***************************************************************************)
BatchHeaders ==
    {CanonicalHeader, ShiftedHeader, PartialHeader, NoSkillsHeader,
     BareHeader, WideHeader}

InitBatch ==
    /\ \E h \in BatchHeaders, ra \in SeqsUpTo(Seeds, MaxRows) :
          sheet = [w \in WS |->
             IF w = "active"
             THEN [header |-> h,
                   rows |-> [i \in 1..Len(ra) |-> SeedRow(h, ra[i])]]
             ELSE [header |-> CanonicalHeader, rows |-> <<>>]]
    /\ df = [w \in WS |-> EmptyFrame]
    /\ pc = "start"
    /\ op = IdleOp
    /\ rx = RetryIdle
    /\ msgs = {}
    /\ calls = <<>>
    /\ nops = 0
    /\ ratings = NoRatings
    /\ score = 0

NextBatch == Start \/ ClickSave \/ SaveHeaders \/ SaveBatch \/ SaveReturn

SpecBatch == InitBatch /\ [][NextBatch]_vars

\* The cell a range addresses, as the store reads it: <<column, row>>.
CellAddressed(range) == <<ColumnOfLetter(range.letter), range.row>>

\* The cells the claim lets Update Scores write: in spreadsheet row
\* row_position + 2, the column of each rated skill and of Applicant Score
\* that stands in the header row.
CellsToWrite(headers, row_index) ==
    {<<ColIndex(headers, c), row_index + 2>> :
        c \in (Skills \cup {"Applicant Score"}) \cap Range(headers)}

\* The cell at data row i, column j of a worksheet; '' where the row ends.
CellAt(w, i, j) ==
    IF i <= Len(w.rows) /\ j <= Len(w.rows[i]) THEN w.rows[i][j] ELSE Blank

\* C15: the batch Update Scores builds from the header row it has just read
\* has one cell for each rated skill in that header row and one for
\* Applicant Score, each at row row_position + 2 in the column where the
\* name stands; it is written in a single batched call, and the write
\* changes no other cell of the worksheet and no other worksheet.
C15_BatchAddressesHeaderColumns ==
    (op.kind = "save" /\ op.headers # <<>>) =>
        /\ op.headers = sheet[op.src].header
        /\ {CellAddressed(op.updates[i].range) : i \in 1..Len(op.updates)}
             = CellsToWrite(op.headers, op.row_index)
        /\ Len(op.updates) = Cardinality(CellsToWrite(op.headers, op.row_index))
        /\ Cardinality({i \in 1..Len(calls) : calls[i].api = "batch_update"}) <= 1
        /\ \A w \in WS \ {op.src} : sheet[w] = op.pre[w]
        /\ Len(sheet[op.src].rows) = Len(op.pre[op.src].rows)
        /\ \A i \in 1..Len(sheet[op.src].rows) :
           \A j \in 1..Len(op.headers) :
              <<j, i + 1>> \notin CellsToWrite(op.headers, op.row_index)
                 => CellAt(sheet[op.src], i, j) = CellAt(op.pre[op.src], i, j)

\* C16: when the header row read by Update Scores has none of the rated
\* skill columns, no write call is issued and the operation reports success.
C16_NoSkillColumnsNoWrite ==
    (op.kind = "save" /\ op.headers # <<>>
        /\ Skills \cap Range(op.headers) = {}) =>
        /\ ~ Issued("batch_update")
        /\ pc # "save_batch"
        /\ op.outcome = "ok"
        /\ SaveSuccess \in msgs
        /\ sheet = op.pre

\* The error texts a remote call of a session can raise.
SessionErrors == {o.msg : o \in SessionOutcomes \ {Ok}}

\* C17: what the operator is shown after the delete of a transition failed
\* (the append having succeeded) differs from everything a failure of the
\* append of that transition can show, so the two can be told apart.
C17_DeleteFailureToldApart ==
    (IsMove /\ op.failed = "delete") =>
        \A e \in SessionErrors :
            msgs # {MoveErrorShown(op.kind, "append", e)}

IsMutation == op.kind \in {"save", "deny", "hire", "reinstate"}

\* C19: on every rendered page, the row_position the buttons of the j-th
\* record of a loaded table hand to Update Scores, deny, hire or reinstate
\* is that record's own zero-based offset in the table, j - 1.
C19_RowPositionIsRecordOffset ==
    pc = "idle" =>
        \A w \in WS : \A j \in 1..Len(df[w].rows) :
            OriginalIdx(df[w], j) = j - 1

\* The rows of the worksheets sh that show name n under their header row.
RowsNamed(sh, n) ==
    UNION {{<<w, i>> : i \in {k \in 1..Len(sh[w].rows) :
                                NameOfRow(sh[w].header, sh[w].rows[k]) = n}} :
           w \in WS}

NamesIn(sh) ==
    UNION {{NameOfRow(sh[w].header, sh[w].rows[i]) : i \in 1..Len(sh[w].rows)} :
           w \in WS}

\* C20: no mutation loses a record: at every moment of a mutation, also
\* between the append and the delete of a transition and after a failure of
\* either, each record the worksheets held before it is in at least one
\* worksheet, and once a transition has completed both calls each record is
\* in exactly as many worksheets as before (one).
C20_NoRecordLost ==
    IsMutation =>
        /\ \A n \in NamesIn(op.pre) :
              Cardinality(RowsNamed(sheet, n)) >= Cardinality(RowsNamed(op.pre, n))
        /\ (IsMove /\ op.outcome = "ok") =>
              /\ NamesIn(sheet) = NamesIn(op.pre)
              /\ \A n \in NamesIn(op.pre) :
                    Cardinality(RowsNamed(sheet, n))
                        = Cardinality(RowsNamed(op.pre, n))

\* C21: after any sequence of resolves, also ones whose create or header
\* write failed, a worksheet that the resolver created and that a resolve
\* returns has the canonical header row as its first row.
C21_ReturnedSheetHasHeader ==
    (op.kind = "resolve" /\ op.outcome = "returned"
        /\ CallsLike("add_worksheet", op.src, "ok") # {}) =>
        /\ op.src \in DOMAIN sheet
        /\ sheet[op.src].header = CanonicalHeader

====
